---- MODULE Spec2Model ----
(***************************************************************************)
(* Model of packages/backend/src/plugins/scaffolder/actions/helpers.ts:    *)
(* parseRepoUrl, getOctokitOptions, isExecutable and                       *)
(* serializeDirectoryContents.                                             *)
(***************************************************************************)
EXTENDS Integers, Sequences, FiniteSets, TLC

VARIABLES
    call,       \* the arguments of the call being made (parseRepoUrl, getOctokitOptions, isExecutable)
    pc,         \* position of that call: "idle", "start", "awaitCredentials", "done"
    ret,        \* what the call returned or threw
    trace,      \* the collaborators the call has used so far, in order
    paths,      \* serializeDirectoryContents: the entries globby enumerated
    phase,      \* serializeDirectoryContents: "idle", "start", "filter", "read", "ended"
    filterMap,  \* asyncFilter: per entry, the state of its callback's promise
    status,     \* per entry, the state of its limiter(...) promise
    result      \* the promise serializeDirectoryContents returned

vars == <<call, pc, ret, trace, paths, phase, filterMap, status, result>>
callVars == <<call, pc, ret, trace>>
serVars == <<paths, phase, filterMap, status, result>>

\* JavaScript's null and undefined, and a value that was never produced.
Null == "<null>"
Undefined == "<undefined>"
None == [status |-> "none"]

\* JavaScript truthiness of a string | null | undefined.
Truthy(v) == v \notin {Null, Undefined, ""}

\* a ?? undefined
OrUndefined(v) == IF v = Null THEN Undefined ELSE v

InputError(why) == [status |-> "threw", error |-> "InputError", why |-> why]
Returned(v) == [status |-> "returned", value |-> v]

-----------------------------------------------------------------------------
(* parseRepoUrl *)

ParamNames == {"owner", "organization", "workspace", "project", "repo"}

\* searchParams.get(name): null when the parameter is absent, '' when it is
\* given empty, its value otherwise.
ParamValues == {Null, "", "x"}

\* integrations.byHost(host)?.type for the hosts of the model.
HostType == [h \in {"github.com", "ghe.example.com", "gitlab.com", "www.bitbucket.org",
                    "bitbucket.org", "gerrit.example.com", "dev.azure.com",
                    "unknown.example.com"} |->
                CASE h \in {"github.com", "ghe.example.com"} -> "github"
                  [] h = "gitlab.com" -> "gitlab"
                  [] h \in {"www.bitbucket.org", "bitbucket.org"} -> "bitbucket"
                  [] h = "gerrit.example.com" -> "gerrit"
                  [] h = "dev.azure.com" -> "azure"
                  [] OTHER -> Undefined]

Hosts == DOMAIN HostType

\* The raw strings: one that new URL(`https://${repoUrl}`) rejects, and the
\* ones it accepts, given by the host and the search parameters it yields.
InvalidUrl == [valid |-> FALSE]
RepoUrls == {InvalidUrl} \cup
            [valid : {TRUE}, host : Hosts, searchParams : [ParamNames -> ParamValues]]

\* checkRequiredParams: the first of params that is missing or empty, or
\* Undefined when none is.
RECURSIVE checkRequiredParams(_, _)
checkRequiredParams(searchParams, params) ==
    IF params = <<>> THEN Undefined
    ELSE IF ~Truthy(searchParams[Head(params)]) THEN Head(params)
    ELSE checkRequiredParams(searchParams, Tail(params))

\* The switch of parseRepoUrl: the parameters checked, in the order checked.
RequiredParamsBitbucketAlwaysWorkspace(type, host, project) ==
    CASE type = "bitbucket" -> <<"workspace", "project", "repo">>
      [] type = "gitlab" -> IF ~Truthy(project) THEN <<"owner", "repo">> ELSE <<>>
      [] type = "gerrit" -> <<"repo">>
      [] OTHER -> <<"repo", "owner">>

RequiredParams(type, host, project) ==
    CASE type = "bitbucket" ->
            (IF host = "www.bitbucket.org" THEN <<"workspace">> ELSE <<>>)
                \o <<"project", "repo">>
      [] type = "gitlab" -> IF ~Truthy(project) THEN <<"owner", "repo">> ELSE <<>>
      [] type = "gerrit" -> <<"repo">>
      [] OTHER -> <<"repo", "owner">>

parseRepoUrl(repoUrl) ==
    IF ~repoUrl.valid THEN InputError("invalid url")
    ELSE LET host == repoUrl.host
             get == repoUrl.searchParams
             owner == OrUndefined(get["owner"])
             organization == OrUndefined(get["organization"])
             workspace == OrUndefined(get["workspace"])
             project == OrUndefined(get["project"])
             type == HostType[host]
             repo == get["repo"]
             missing == checkRequiredParams(get, RequiredParams(type, host, project))
         IN IF ~Truthy(type) THEN InputError("no integration")
            ELSE IF missing # Undefined THEN InputError(missing)
            ELSE Returned([host |-> host, owner |-> owner, repo |-> repo,
                           organization |-> organization, workspace |-> workspace,
                           project |-> project])

ParseRepoUrlCall ==
    /\ pc = "start"
    /\ call.op = "parseRepoUrl"
    /\ ret' = parseRepoUrl(call.repoUrl)
    /\ trace' = Append(trace, "parseRepoUrl")
    /\ pc' = "done"
    /\ UNCHANGED <<call, serVars>>

SerIdle ==
    /\ paths = <<>>
    /\ phase = "idle"
    /\ filterMap = <<>>
    /\ status = <<>>
    /\ result = None

InitParse ==
    /\ call \in [op : {"parseRepoUrl"}, repoUrl : RepoUrls]
    /\ pc = "start"
    /\ ret = None
    /\ trace = <<>>
    /\ SerIdle

NextParse == ParseRepoUrlCall

SpecParse == InitParse /\ [][NextParse]_vars

-----------------------------------------------------------------------------
(* getOctokitOptions *)

DEFAULT_TIMEOUT_MS == 60000

\* integrations.github.byHost(host)?.config; UndefinedConfig when the host has
\* no GitHub integration.
UndefinedConfig == [undefined |-> TRUE]

GithubConfig(host) ==
    IF HostType[host] = "github"
    THEN [host |-> host, apiBaseUrl |-> <<"api", host>>]
    ELSE UndefinedConfig

\* The caller's token: absent, empty or a token.
CallerTokens == {Undefined, "", "caller-token"}

\* What githubCredentialsProvider.getCredentials settles with.
CredentialResults == {[settled |-> "fulfilled", token |-> Undefined],
                      [settled |-> "fulfilled", token |-> ""],
                      [settled |-> "fulfilled", token |-> "provider-token"],
                      [settled |-> "rejected"]}

\* if (token): the caller's token short-circuits the credentials provider.
UseSuppliedTokenNever(token) == FALSE

UseSuppliedToken(token) == Truthy(token)

\* The options returned for a caller-supplied token.
TokenOptions(token, integrationConfig) ==
    [auth |-> token,
     baseUrl |-> integrationConfig.apiBaseUrl,
     previews |-> <<"nebula-preview">>,
     request |-> [timeout |-> DEFAULT_TIMEOUT_MS]]

\* The options returned for a token of the credentials provider.
ProviderOptions(credentialProviderToken, integrationConfig) ==
    [auth |-> credentialProviderToken,
     baseUrl |-> integrationConfig.apiBaseUrl,
     previews |-> <<"nebula-preview">>]

\* getOctokitOptions up to its return, its throw or its await of getCredentials.
GetOctokitOptionsCall ==
    /\ pc = "start"
    /\ call.op = "getOctokitOptions"
    /\ LET parsed == parseRepoUrl(call.repoUrl)
           owner == parsed.value.owner
           host == parsed.value.host
           integrationConfig == GithubConfig(host)
       IN IF parsed.status = "threw"
          THEN /\ ret' = parsed
               /\ trace' = <<"parseRepoUrl">>
               /\ pc' = "done"
          ELSE IF ~Truthy(owner)
          THEN /\ ret' = InputError("no owner")
               /\ trace' = <<"parseRepoUrl">>
               /\ pc' = "done"
          ELSE IF integrationConfig = UndefinedConfig
          THEN /\ ret' = InputError("no integration for host")
               /\ trace' = <<"parseRepoUrl", "github.byHost">>
               /\ pc' = "done"
          ELSE IF UseSuppliedToken(call.token)
          THEN /\ ret' = Returned(TokenOptions(call.token, integrationConfig))
               /\ trace' = <<"parseRepoUrl", "github.byHost">>
               /\ pc' = "done"
          ELSE /\ ret' = ret
               /\ trace' = <<"parseRepoUrl", "github.byHost", "getCredentials">>
               /\ pc' = "awaitCredentials"
    /\ UNCHANGED <<call, serVars>>

\* The continuation of getOctokitOptions once getCredentials has settled.
GetCredentialsSettled ==
    /\ pc = "awaitCredentials"
    /\ \E r \in CredentialResults :
          LET integrationConfig == GithubConfig(parseRepoUrl(call.repoUrl).value.host)
          IN ret' = IF r.settled = "rejected"
                    THEN [status |-> "threw", error |-> "ProviderError", why |-> "getCredentials"]
                    ELSE IF ~Truthy(r.token) THEN InputError("no token")
                    ELSE Returned(ProviderOptions(r.token, integrationConfig))
    /\ pc' = "done"
    /\ UNCHANGED <<call, trace, serVars>>

InitOctokit ==
    /\ call \in [op : {"getOctokitOptions"}, repoUrl : RepoUrls, token : CallerTokens]
    /\ pc = "start"
    /\ ret = None
    /\ trace = <<>>
    /\ SerIdle

NextOctokit == GetOctokitOptionsCall \/ GetCredentialsSettled

SpecOctokit == InitOctokit /\ [][NextOctokit]_vars

-----------------------------------------------------------------------------
(* isExecutable *)

\* A bound of the model: the file modes tried are 0..MaxMode (0o7777).
MaxMode == 4095

\* number | undefined
NumUndefined == [defined |-> FALSE]
Num(n) == [defined |-> TRUE, value |-> n]

\* a & b on non-negative integers.
RECURSIVE BitAnd(_, _)
BitAnd(a, b) ==
    IF a = 0 \/ b = 0 THEN 0
    ELSE (a % 2) * (b % 2) + 2 * BitAnd(a \div 2, b \div 2)

\* 0o000111
executeBitMask == 73

isExecutableOwnerOnly(fileMode) ==
    IF ~fileMode.defined \/ fileMode.value = 0 THEN FALSE
    ELSE BitAnd(fileMode.value, 64) > 0

isExecutable(fileMode) ==
    IF ~fileMode.defined \/ fileMode.value = 0 THEN FALSE
    ELSE BitAnd(fileMode.value, executeBitMask) > 0

IsExecutableCall ==
    /\ pc = "start"
    /\ call.op = "isExecutable"
    /\ ret' = Returned(isExecutable(call.fileMode))
    /\ pc' = "done"
    /\ UNCHANGED <<call, trace, serVars>>

InitExec ==
    /\ call \in [op : {"isExecutable"},
                 fileMode : {NumUndefined} \cup {Num(n) : n \in 0..MaxMode}]
    /\ pc = "start"
    /\ ret = None
    /\ trace = <<>>
    /\ SerIdle

NextExec == IsExecutableCall

SpecExec == InitExec /\ [][NextExec]_vars

-----------------------------------------------------------------------------
(* serializeDirectoryContents *)

\* limiterFactory(10)
Concurrency == 10

\* Bounds of the model: trees of up to NEntries entries of every kind, and
\* trees of MaxFiles regular files (more than the limiter admits at once).
NEntries == 3
MaxFiles == 12

\* An entry globby yields, with what the file system answers for it:
\*   kind     its dirent: "file" (any non-directory non-symlink), "dir", "symlink"
\*   escapes  resolveSafeChildPath(sourcePath, path) throws for its path
\*   stat     how fs.stat of its path settles: "ok", "ENOENT" or another error
\*   readOk   whether fs.readFile / fs.readlink of its path succeeds
\*   mode     stats.mode
Entry(kind, escapes, stat, readOk, mode) ==
    [kind |-> kind, escapes |-> escapes, stat |-> stat, readOk |-> readOk, mode |-> mode]

EntryUniverse ==
    { Entry("dir", FALSE, "ok", TRUE, 493),
      Entry("file", FALSE, "ok", TRUE, 420),
      Entry("file", FALSE, "ok", TRUE, 493),
      Entry("file", FALSE, "ok", FALSE, 420),
      Entry("file", TRUE, "ok", TRUE, 420),
      Entry("symlink", FALSE, "ok", TRUE, 511),
      Entry("symlink", FALSE, "EOTHER", TRUE, 511),
      Entry("symlink", FALSE, "ENOENT", TRUE, 511),
      Entry("symlink", FALSE, "ENOENT", FALSE, 511),
      Entry("symlink", TRUE, "ENOENT", TRUE, 511) }

SmallTrees == UNION {[1..n -> EntryUniverse] : n \in 0..NEntries}

\* MaxFiles regular files: the first one, or all those the limiter starts at
\* once, may be unreadable, and the last, which waits in the limiter's queue,
\* may have a path that escapes the root.
LargeTrees ==
    { [i \in 1..MaxFiles |->
          IF i <= unreadable THEN Entry("file", FALSE, "ok", FALSE, 420)
          ELSE IF i = MaxFiles /\ lastEscapes THEN Entry("file", TRUE, "ok", TRUE, 420)
          ELSE Entry("file", FALSE, "ok", TRUE, 420)] :
      unreadable \in {0, 1, Concurrency}, lastEscapes \in BOOLEAN }

Indices == DOMAIN paths

\* The callback of asyncFilter up to its first await: the value its promise
\* already has, "threw" when resolveSafeChildPath threw, "pending" while
\* fs.stat is outstanding.
FilterCallback(entry) ==
    IF entry.kind = "dir" THEN "false"
    ELSE IF entry.kind # "symlink" THEN "true"
    ELSE IF entry.escapes THEN "threw"
    ELSE "pending"

\* The callback of asyncFilter after fs.stat settled: return false when it
\* succeeded, isError(e) && e.code === 'ENOENT' when it failed.
StatVerdictRethrow(stat) ==
    IF stat = "ok" THEN "false"
    ELSE IF stat = "ENOENT" THEN "true" ELSE "threw:StatError"

StatVerdictKeepExisting(stat) ==
    IF stat = "ok" THEN "true"
    ELSE IF stat = "ENOENT" THEN "true" ELSE "false"

StatVerdict(stat) ==
    IF stat = "ok" THEN "false"
    ELSE IF stat = "ENOENT" THEN "true" ELSE "false"

\* The function given to the limiter: "NotAllowedError" when
\* resolveSafeChildPath throws, else how the read settles.
ReadOutcomeUnchecked(entry) ==
    IF entry.readOk THEN "ok" ELSE "IOError"

ReadOutcome(entry) ==
    IF entry.escapes THEN "NotAllowedError"
    ELSE IF entry.readOk THEN "ok" ELSE "IOError"

\* What the read yields: fs.readlink gives the link's raw target, fs.readFile
\* the bytes of the file.
ReadValue(entry, path) ==
    IF entry.kind = "symlink"
    THEN [read |-> "readlink", bytes |-> <<"target of", path>>]
    ELSE [read |-> "readFile", bytes |-> <<"bytes of", path>>]

\* The record built for a retained entry once its read succeeded.
SerializedFile(path) ==
    [path |-> path,
     content |-> ReadValue(paths[path], path),
     executable |-> isExecutable(Num(paths[path].mode)),
     symlink |-> paths[path].kind = "symlink"]

\* array.filter((_value, index) => filterMap[index]), as indices of paths.
Valid(fm) == SelectSeq([i \in 1..Len(fm) |-> i], LAMBDA i : fm[i] = "true")

\* The limiter right after every retained entry was handed to it: it runs
\* the first ones, up to its concurrency, and queues the rest.
AdmittedAtOnceAll(n) == n

AdmittedAtOnce(n) == IF n < Concurrency THEN n ELSE Concurrency

\* The limiter when the read of entry i settles with outcome: the slot is
\* released and the queued read that waited longest is started.
Queued(st) == {j \in DOMAIN st : st[j] = "queued"}
FirstQueued(st) == CHOOSE j \in Queued(st) : \A k \in Queued(st) : j <= k

SettleKeepSlotOnFailure(st, i, outcome) ==
    LET settled == [st EXCEPT ![i] = IF outcome = "ok" THEN "ok" ELSE "failed"]
    IN IF Queued(settled) = {} \/ outcome # "ok" THEN settled
       ELSE [settled EXCEPT ![FirstQueued(settled)] = "running"]

Settle(st, i, outcome) ==
    LET settled == [st EXCEPT ![i] = IF outcome = "ok" THEN "ok" ELSE "failed"]
    IN IF Queued(settled) = {} THEN settled
       ELSE [settled EXCEPT ![FirstQueued(settled)] = "running"]

Pending == [status |-> "pending"]
Rejected(error) == [status |-> "rejected", error |-> error]
Resolved(files) == [status |-> "resolved", files |-> files]

\* The call, after globby resolved: array.map(callback) runs every callback
\* to its first await; a callback that threw rejects Promise.all, and with it
\* the call.
SerializeCall ==
    /\ phase = "start"
    /\ filterMap' = [i \in Indices |-> FilterCallback(paths[i])]
    /\ IF \E i \in Indices : FilterCallback(paths[i]) = "threw"
       THEN /\ result' = Rejected("NotAllowedError")
            /\ phase' = "ended"
       ELSE /\ result' = Pending
            /\ phase' = "filter"
    /\ UNCHANGED <<paths, status, callVars>>

\* fs.stat of a symbolic link settles. A verdict that throws rejects
\* Promise.all, and with it the call.
StatSettled(i) ==
    /\ filterMap[i] = "pending"
    /\ LET verdict == StatVerdict(paths[i].stat)
       IN IF verdict \in {"true", "false"}
          THEN /\ filterMap' = [filterMap EXCEPT ![i] = verdict]
               /\ UNCHANGED <<phase, result>>
          ELSE /\ filterMap' = [filterMap EXCEPT ![i] = "threw"]
               /\ IF result.status = "pending"
                  THEN result' = Rejected("StatError") /\ phase' = "ended"
                  ELSE UNCHANGED <<phase, result>>
    /\ UNCHANGED <<paths, status, callVars>>

\* asyncFilter resolved: every retained entry is handed to the limiter. With
\* nothing retained Promise.all([]) resolves with the empty list.
StartReads ==
    /\ phase = "filter"
    /\ \A i \in Indices : filterMap[i] \in {"true", "false"}
    /\ LET valid == Valid(filterMap)
           admitted == AdmittedAtOnce(Len(valid))
       IN /\ status' = [i \in Indices |->
                          IF \E k \in 1..Len(valid) : valid[k] = i /\ k <= admitted
                          THEN "running"
                          ELSE IF filterMap[i] = "true" THEN "queued" ELSE "none"]
          /\ IF valid = <<>>
             THEN result' = Resolved(<<>>) /\ phase' = "ended"
             ELSE result' = result /\ phase' = "read"
    /\ UNCHANGED <<paths, filterMap, callVars>>

\* The limited function of entry i settles: the first failure rejects
\* Promise.all, and with it the call; the last success resolves it. The
\* other reads go on either way.
ReadSettled(i) ==
    /\ status[i] = "running"
    /\ LET outcome == ReadOutcome(paths[i])
           after == Settle(status, i, outcome)
           valid == Valid(filterMap)
       IN /\ status' = after
          /\ IF result.status # "pending"
             THEN UNCHANGED <<phase, result>>
             ELSE IF outcome # "ok"
             THEN result' = Rejected(outcome) /\ phase' = "ended"
             ELSE IF \A k \in 1..Len(valid) : after[valid[k]] = "ok"
             THEN /\ result' = Resolved([k \in 1..Len(valid) |-> SerializedFile(valid[k])])
                  /\ phase' = "ended"
             ELSE UNCHANGED <<phase, result>>
    /\ UNCHANGED <<paths, filterMap, callVars>>

InitSer ==
    /\ paths \in SmallTrees \cup LargeTrees
    /\ phase = "start"
    /\ filterMap = [i \in DOMAIN paths |-> "none"]
    /\ status = [i \in DOMAIN paths |-> "none"]
    /\ result = None
    /\ call = [op |-> "serializeDirectoryContents"]
    /\ pc = "idle"
    /\ ret = None
    /\ trace = <<>>

NextSer ==
    \/ SerializeCall
    \/ \E i \in Indices : StatSettled(i)
    \/ StartReads
    \/ \E i \in Indices : ReadSettled(i)

SpecSer == InitSer /\ [][NextSer]_vars

\* Every outstanding fs call settles and every continuation runs.
SpecSerFair == SpecSer /\ WF_vars(NextSer)

-----------------------------------------------------------------------------
(* Properties of parseRepoUrl, getOctokitOptions and isExecutable *)

ParseDone == pc = "done" /\ call.op = "parseRepoUrl"
OctokitDone == pc = "done" /\ call.op = "getOctokitOptions"

\* A query parameter is present when it is given and not empty.
Present(repoUrl, name) == repoUrl.searchParams[name] \notin {Null, ""}

\* The provider's rules as the specification words them.
RulesMet(repoUrl) ==
    LET type == HostType[repoUrl.host]
        has(name) == Present(repoUrl, name)
    IN CASE type = Undefined -> FALSE
         [] type = "bitbucket" ->
               /\ has("project") /\ has("repo")
               /\ (repoUrl.host = "www.bitbucket.org" => has("workspace"))
         [] type = "gitlab" -> has("project") \/ (has("owner") /\ has("repo"))
         [] type = "gerrit" -> has("repo")
         [] OTHER -> has("repo") /\ has("owner")

\* C1: parseRepoUrl returns a descriptor exactly when the URL parses and the
\* rules of the host's provider type are met (bitbucket: project and repo,
\* plus workspace on www.bitbucket.org; gitlab: project, or owner and repo;
\* gerrit: repo; any other type: repo and owner); in every other case,
\* a host without a provider type included, it throws InputError.
C1_ParseAcceptsExactlyByRules ==
    ParseDone =>
        /\ ret.status = "returned" <=> (call.repoUrl.valid /\ RulesMet(call.repoUrl))
        /\ ret.status # "returned" => (ret.status = "threw" /\ ret.error = "InputError")
        /\ ret.status = "returned" => ret.value.host = call.repoUrl.host

\* C1 witness: a bitbucket URL of a host other than www.bitbucket.org was
\* accepted without workspace.
C1_Witness ==
    /\ ParseDone
    /\ call.repoUrl.valid
    /\ call.repoUrl.host = "bitbucket.org"
    /\ ~Present(call.repoUrl, "workspace")
    /\ ret.status = "returned"

\* C10 (as claimed): every descriptor parseRepoUrl returns has a non-empty
\* host and a non-empty repo.
C10_ReturnedRepoNonEmpty ==
    (ParseDone /\ ret.status = "returned") =>
        (Truthy(ret.value.host) /\ Truthy(ret.value.repo))

\* C2 (as claimed): a supplied token makes getOctokitOptions return the
\* token options without parseRepoUrl, the integration lookup or the
\* credentials provider, so it never fails.
C2_TokenSkipsEverything ==
    (OctokitDone /\ Truthy(call.token)) =>
        /\ ret.status = "returned"
        /\ ret.value.auth = call.token
        /\ ret.value.request.timeout = 60000
        /\ trace = <<>>

\* C2 (amended): with a supplied token the credentials provider is never
\* called; parseRepoUrl and the GitHub integration lookup still run first,
\* and the call throws InputError when the URL is rejected, the owner is
\* missing or the host has no GitHub integration; otherwise it returns
\* options whose auth is the token and whose request timeout is 60000 ms.
C2_TokenSkipsCredentialsProvider ==
    (call.op = "getOctokitOptions" /\ Truthy(call.token)) =>
        /\ pc # "awaitCredentials"
        /\ pc = "done" =>
            LET u == call.repoUrl
                accepted == /\ u.valid /\ RulesMet(u) /\ Present(u, "owner")
                            /\ HostType[u.host] = "github"
            IN /\ trace[1] = "parseRepoUrl"
               /\ \A i \in DOMAIN trace : trace[i] # "getCredentials"
               /\ accepted => /\ ret.status = "returned"
                               /\ ret.value.auth = call.token
                               /\ ret.value.request.timeout = 60000
               /\ ~accepted => (ret.status = "threw" /\ ret.error = "InputError")

\* C2 witness: a call with a token has returned.
C2_Witness ==
    /\ OctokitDone
    /\ Truthy(call.token)
    /\ ret.status = "returned"

\* C6 (as claimed): every options value getOctokitOptions returns holds
\* auth, baseUrl, previews and a request timeout of 60000 ms.
C6_OptionsAlwaysCarryTimeout ==
    (OctokitDone /\ ret.status = "returned") =>
        /\ {"auth", "baseUrl", "previews", "request"} \subseteq DOMAIN ret.value
        /\ ret.value.request.timeout = 60000

\* C7: isExecutable(mode) is true exactly when one of the execute bits of
\* user (0o100), group (0o010) or other (0o001) is set in mode;
\* isExecutable(undefined) is false; 0o644 gives false and 0o755 true.
C7_ExecutableIffExecuteBit ==
    (pc = "done" /\ call.op = "isExecutable") =>
        LET m == call.fileMode
        IN /\ ret.value <=>
                (m.defined /\ \E k \in {1, 8, 64} : (m.value \div k) % 2 = 1)
           /\ ~m.defined => ret.value = FALSE
           /\ (m.defined /\ m.value = 420) => ret.value = FALSE
           /\ (m.defined /\ m.value = 493) => ret.value = TRUE

\* C7 witness: a mode with only the group execute bit set was found executable.
C7_Witness ==
    /\ pc = "done"
    /\ call.op = "isExecutable"
    /\ call.fileMode = Num(424)
    /\ ret.value = TRUE

-----------------------------------------------------------------------------
(* Properties of serializeDirectoryContents *)

\* The entries the specification says are serialized: a non-directory
\* non-symlink entry, or a symbolic link whose target fs.stat reports missing.
Qualifies(i) ==
    \/ paths[i].kind = "file"
    \/ paths[i].kind = "symlink" /\ paths[i].stat = "ENOENT"

RecordsOf(i) == {k \in DOMAIN result.files : result.files[k].path = i}

\* C3: a pass that resolves returns exactly one record per entry that is a
\* non-directory non-symlink entry or a symbolic link whose target does not
\* exist (fs.stat fails with ENOENT), and none for a directory or for a
\* symbolic link whose target exists; a record's symlink flag is true iff
\* its entry is a symbolic link, a symlink record holds the raw link target
\* and a file record the file's bytes.
C3_RecordsAreFilesAndDanglingLinks ==
    result.status = "resolved" =>
        /\ \A i \in Indices :
              Cardinality(RecordsOf(i)) = IF Qualifies(i) THEN 1 ELSE 0
        /\ \A k \in DOMAIN result.files :
              LET f == result.files[k]
                  e == paths[f.path]
              IN /\ f.path \in Indices
                 /\ f.symlink <=> e.kind = "symlink"
                 /\ f.content.bytes =
                        IF e.kind = "symlink" THEN <<"target of", f.path>>
                        ELSE <<"bytes of", f.path>>

\* C3 witness: a resolved pass over a file, a dangling link and a directory
\* (or a link to an existing target) that returned two records.
C3_Witness ==
    /\ result.status = "resolved"
    /\ Len(result.files) = 2
    /\ \E i, j, d \in Indices :
          /\ paths[i].kind = "file"
          /\ paths[j].kind = "symlink" /\ paths[j].stat = "ENOENT"
          /\ (paths[d].kind = "dir" \/ (paths[d].kind = "symlink" /\ paths[d].stat = "ok"))

Running == {i \in Indices : status[i] = "running"}

\* C4: at every instant of a pass at most 10 reads are started and not yet
\* finished, whatever the order in which reads finish.
C4_AtMostTenReadsInFlight == Cardinality(Running) <= 10

\* C4 witness: ten reads in flight while another waits, after one finished.
C4_Witness ==
    /\ Cardinality(Running) = 10
    /\ \E i, j \in Indices : status[i] = "queued" /\ status[j] \in {"ok", "failed"}

\* The resolutions and reads of a pass that fail: the safe-path resolution
\* of a symbolic link in the filter step, and the safe-path resolution or
\* the read of a retained entry in the materialization step.
FailsInFilter(i) == paths[i].kind = "symlink" /\ paths[i].escapes
FailsInRead(i) == Qualifies(i) /\ (paths[i].escapes \/ ~paths[i].readOk)

\* C5: when a safe-path resolution of the pass escapes the root, or the read
\* of a retained entry fails, the call rejects with that error and yields no
\* list of records; every record returned has a path inside the root.
C5_FailureRejectsWholeCall ==
    /\ ((\E i \in Indices : filterMap[i] = "threw" \/ status[i] = "failed")
            => /\ result.status = "rejected"
               /\ DOMAIN result = {"status", "error"})
    /\ (result.status = "rejected"
            => \/ result.error = "NotAllowedError"
                    /\ \E i \in Indices :
                          \/ filterMap[i] = "threw" /\ paths[i].escapes
                          \/ status[i] = "failed" /\ paths[i].escapes
               \/ result.error = "IOError"
                    /\ \E i \in Indices : status[i] = "failed" /\ ~paths[i].readOk)
    /\ (result.status \in {"resolved", "rejected"}
            => (result.status = "rejected"
                    <=> \E i \in Indices : FailsInFilter(i) \/ FailsInRead(i)))
    /\ (result.status = "resolved"
            => \A k \in DOMAIN result.files : ~paths[result.files[k].path].escapes)

\* C5 witness: a pass rejected by a failing read after another read of it
\* had succeeded.
C5_Witness ==
    /\ result.status = "rejected"
    /\ \E i, j \in Indices : status[i] = "failed" /\ status[j] = "ok"

\* C8: in the filter step a symbolic link inside the root is retained when
\* fs.stat fails with ENOENT and dropped when it fails with another error,
\* as when it succeeds; the other error is not raised, and the pass goes on.
C8_OtherStatErrorDropsEntry ==
    /\ \A i \in Indices :
          (paths[i].kind = "symlink" /\ ~paths[i].escapes
                /\ filterMap[i] \notin {"none", "pending"})
             => /\ paths[i].stat = "ENOENT" => filterMap[i] = "true"
                /\ paths[i].stat # "ENOENT" => filterMap[i] = "false"
    /\ (result.status = "rejected" => result.error # "StatError")
    /\ (phase = "read" =>
            \A i \in Indices :
                (paths[i].kind = "symlink" /\ paths[i].stat = "EOTHER")
                    => status[i] = "none")

\* C8 witness: a pass resolved with a record although fs.stat of one of its
\* symbolic links failed with an error other than ENOENT.
C8_Witness ==
    /\ result.status = "resolved"
    /\ Len(result.files) >= 1
    /\ \E i \in Indices :
          /\ paths[i].kind = "symlink" /\ paths[i].stat = "EOTHER"
          /\ filterMap[i] = "false"

NumValid == Cardinality({i \in Indices : filterMap[i] = "true"})
AllSettled == \A i \in Indices : status[i] \in {"none", "ok", "failed"}
AllReadsOk == \A i \in Indices : filterMap[i] = "true" => status[i] = "ok"

\* C9: a pass with more than 10 retained entries, whose started reads all
\* finish, admits every queued read and ends: it resolves with the full
\* list when every read succeeded and rejects otherwise.
C9_LargePassEnds ==
    (phase = "read" /\ NumValid > 10)
        ~> /\ AllSettled
           /\ IF AllReadsOk
              THEN result.status = "resolved" /\ Len(result.files) = NumValid
              ELSE result.status = "rejected"

\* C9 witness: a pass of more than 10 retained entries whose first 10 reads
\* all failed and whose queued reads were still admitted and finished.
C9_Witness ==
    /\ NumValid > 10
    /\ AllSettled
    /\ \A i \in 1..10 : status[i] = "failed"
    /\ status[Len(paths)] = "ok"
    /\ result.status = "rejected"

====
